---------------------------- MODULE Spec2Model ----------------------------
(***************************************************************************)
(* A model of the dnsur stub resolver's query engine:                      *)
(*   src/src/resolvers/resolv.rs  dns_with_search, dns_lookup,             *)
(*                                query_name_and_nameserver,               *)
(*                                create_message,                          *)
(*                                query_question_and_nameserver            *)
(*   src/src/addr.rs              IpAddresses::iter, Iter::next            *)
(*   src/src/lib.rs               the resolver's configuration fields      *)
(*                                                                         *)
(* Strings are sequences of one-character strings.  A resolve call is a    *)
(* single-threaded task; the two questions of one coordinator call are the *)
(* two futures of monoio::join!, which interleave at their await points    *)
(* (the UDP and the TCP path calls).                                       *)
(***************************************************************************)
EXTENDS Integers, Sequences, FiniteSets, TLC

\* ------------------------------------------------------------------ bounds

\* Longest input name (in characters).
MaxNameLen == 3
\* Largest ndots threshold configured (ndots is a u8).
MaxNdots == 2
\* Most search suffixes configured.
MaxSearch == 2
\* Most nameservers configured.
MaxNameservers == 2
\* Most records in an answer section handed to the address extractor.
MaxRecords == 3

\* --------------------------------------------------------------- constants

\* Wire sizes of the parts of the query built by create_message.
HeaderLen == 12
QuestionFixedLen == 4
OptRecordLen == 11

\* ------------------------------------------------------------------ inputs

Chars == {"a", "."}
Strings(n) == UNION {[1..k -> Chars] : k \in 1..n}
\* The names resolve is called with.
Names == Strings(MaxNameLen)
\* The configured search suffixes are taken, in any order and without
\* repetition, from this pool.
SearchPool == { <<"b">>, <<".", "c">> }
SearchLists ==
    {s \in UNION {[1..k -> SearchPool] : k \in 0..MaxSearch} :
        \A i, j \in DOMAIN s : i # j => s[i] # s[j]}
\* udp_payload_size values configured (a u16).
PayloadSizes == {32, 512}
\* The transaction id fastrand::u16(..) draws: the code only passes it on, so
\* one value, the largest, stands for the draw.
Ids == {65535}
TTLs == {60, 300}
Addrs == {1, 2}

\* ----------------------------------------------------------- name handling

RECURSIVE num_dots_of(_)
\* memchr::Memchr::new(b'.', name.as_bytes()).count()
num_dots_of(s) ==
    IF s = <<>> THEN 0
    ELSE (IF Head(s) = "." THEN 1 ELSE 0) + num_dots_of(Tail(s))

\* name.ends_with(".")
ends_with_dot(s) == Len(s) > 0 /\ s[Len(s)] = "."

RECURSIVE trim_end_matches(_)
\* name.trim_end_matches('.'): every trailing dot is removed.
trim_end_matches(s) ==
    IF ends_with_dot(s) THEN trim_end_matches(SubSeq(s, 1, Len(s) - 1)) ELSE s

RECURSIVE trim_start_matches(_)
\* search.trim_start_matches('.'): every leading dot is removed.
trim_start_matches(s) ==
    IF Len(s) > 0 /\ Head(s) = "." THEN trim_start_matches(Tail(s)) ELSE s

\* Variant of global_scope_of: the comparison with ndots turned round.
global_scope_inverted(s, nd) == num_dots_of(s) <= nd \/ ends_with_dot(s)

\* num_dots >= self.ndots as usize || name.ends_with(".")
global_scope_of(s, nd) == num_dots_of(s) >= nd \/ ends_with_dot(s)

\* host = name + "." + search.trim_start_matches('.')
HostOf(trimmed, suffix) == trimmed \o <<".">> \o trim_start_matches(suffix)

RECURSIVE SplitLabels(_)
\* The pieces of s between its dots (k dots give k + 1 pieces).
SplitLabels(s) ==
    IF s = <<>> THEN << <<>> >>
    ELSE IF Head(s) = "." THEN << <<>> >> \o SplitLabels(Tail(s))
    ELSE LET r == SplitLabels(Tail(s))
         IN  << <<Head(s)>> \o r[1] >> \o Tail(r)

NameParseError == [ok |-> FALSE, labels |-> <<>>]

\* UncertainName::<Vec<u8>>::from_str(s)?.into_absolute()?: the labels of the
\* absolute name, or a parse error.  One trailing dot marks an absolute name;
\* any other empty label is an error.  The empty string is the root.
ParseAbsolute(s) ==
    IF s = <<>> THEN [ok |-> TRUE, labels |-> <<>>]
    ELSE LET parts == SplitLabels(s)
             labels == IF ends_with_dot(s)
                       THEN SubSeq(parts, 1, Len(parts) - 1)
                       ELSE parts
         IN  IF \E i \in DOMAIN labels : labels[i] = <<>>
             THEN NameParseError
             ELSE [ok |-> TRUE, labels |-> labels]

RECURSIVE WireLen(_)
\* The wire length of an absolute name: a length byte per label, the labels,
\* and the root label.
WireLen(labels) ==
    IF labels = <<>> THEN 1 ELSE 1 + Len(Head(labels)) + WireLen(Tail(labels))


\* --------------------------------------------------- responses and records

\* One record of an answer section.  form "badrecord" is a record the
\* section iterator cannot parse (RecordSection::next gives Some(Err));
\* form "baddata" is a record whose header parses and whose data does not
\* decode as its type (into_record gives Err).
OkRecords == [rtype : {"A", "AAAA", "CNAME"}, ttl : TTLs, addr : Addrs, form : {"ok"}]
BadDataRecords == [rtype : {"A", "AAAA"}, ttl : {60}, addr : {1}, form : {"baddata"}]
BadRecord == [rtype |-> "?", ttl |-> 60, addr |-> 1, form |-> "badrecord"]
Records == OkRecords \cup BadDataRecords \cup {BadRecord}

\* A response message: whether Message::answer() can reach the answer
\* section, and the records of that section.
Msg(section) == [answer_ok |-> TRUE, answer |-> section]
NoAnswerMsg == [answer_ok |-> FALSE, answer |-> <<>>]

RecA == [rtype |-> "A", ttl |-> 300, addr |-> 1, form |-> "ok"]
RecA2 == [rtype |-> "A", ttl |-> 60, addr |-> 2, form |-> "ok"]
RecAAAA == [rtype |-> "AAAA", ttl |-> 300, addr |-> 2, form |-> "ok"]
RecCNAME == [rtype |-> "CNAME", ttl |-> 300, addr |-> 1, form |-> "ok"]

\* The responses a nameserver sends in the resolver's specification: no
\* record, address records only, an alias in front of its address, and a
\* message whose answer section cannot be reached.
Responses ==
    { Msg(<<>>), Msg(<<RecA, RecA2>>), Msg(<<RecAAAA>>), Msg(<<RecCNAME, RecA>>),
      NoAnswerMsg }

\* ------------------------------------------------------ address extraction

\* (IpAddr, Duration) of an address record.
ItemOf(r) ==
    [ip |-> <<IF r.rtype = "A" THEN "V4" ELSE "V6", r.addr>>, ttl |-> r.ttl]

\* Iter::next on a section whose next unread record is at pos.
\*   kind "Some": Some((addr, ttl));  kind "None": None;  kind "Panic": an
\*   unwrap() of Err.
IterNextAt(section, pos) ==
    IF pos > Len(section)
    THEN [kind |-> "None", item |-> ItemOf(RecA)]
    ELSE LET record == section[pos]
         IN  IF record.form = "badrecord"
             THEN [kind |-> "None", item |-> ItemOf(RecA)]
             ELSE IF record.rtype \in {"A", "AAAA"}
             THEN IF record.form = "baddata"
                  THEN [kind |-> "Panic", item |-> ItemOf(RecA)]
                  ELSE [kind |-> "Some", item |-> ItemOf(record)]
             ELSE [kind |-> "None", item |-> ItemOf(RecA)]

RECURSIVE Drain(_, _)
\* What a consumer (flat_map / from_iter) gets from one Iter: it calls next
\* until the first None.
Drain(section, pos) ==
    LET n == IterNextAt(section, pos)
    IN  CASE n.kind = "Some" ->
               LET rest == Drain(section, pos + 1)
               IN  [panic |-> rest.panic, items |-> <<n.item>> \o rest.items]
          [] n.kind = "None" -> [panic |-> FALSE, items |-> <<>>]
          [] OTHER -> [panic |-> TRUE, items |-> <<>>]

\* x.iter() drained: IpAddresses::iter unwraps Message::answer().
AddrsOf(msg) ==
    IF ~msg.answer_ok THEN [panic |-> TRUE, items |-> <<>>]
    ELSE Drain(msg.answer, 1)

\* ---------------------------------------------------------------- results

\* Result<B, Error> of resolve, dns_lookup and query_name_and_nameserver.
Ok(addrs) == [tag |-> "Ok", addrs |-> addrs, err |-> "-"]
Err(e) == [tag |-> "Err", addrs |-> <<>>, err |-> e]
Unset == [tag |-> "Unset", addrs |-> <<>>, err |-> "-"]

\* Result<Option<IpAddresses>, Error> of a transport path and of a question.
TOkSome(m) == [tag |-> "OkSome", msg |-> m, err |-> "-"]
TOkNone == [tag |-> "OkNone", msg |-> Msg(<<>>), err |-> "-"]
TErr(e) == [tag |-> "Err", msg |-> Msg(<<>>), err |-> e]
TUnset == [tag |-> "Unset", msg |-> Msg(<<>>), err |-> "-"]

\* ------------------------------------------------------------ create_message

NoData == [id |-> 0, qname |-> <<>>, qtype |-> "-", rd |-> FALSE, opt_size |-> 0, len |-> 0]

\* create_message(id, question, udp_payload_size), finished and turned into
\* its target: header (rd set, the id), one question, one OPT record.
create_message(id, qname, qtype, size) ==
    [id |-> id, qname |-> qname, qtype |-> qtype, rd |-> TRUE, opt_size |-> size,
     len |-> HeaderLen + WireLen(qname) + QuestionFixedLen + OptRecordLen]

\* The arguments of one call of a transport path.
NoCall == [made |-> FALSE, id |-> 0, data |-> NoData]
Call(id, data) == [made |-> TRUE, id |-> id, data |-> data]

\* -------------------------------------------------------------------- state

VARIABLES
    name,               \* the argument of resolve
    ndots,              \* DnsResolver.ndots
    search,             \* DnsResolver.search
    nameservers,        \* DnsResolver.nameservers
    udp_payload_size,   \* DnsResolver.udp_payload_size
    pc,                 \* where the resolve call stands
    search_idx,         \* dns_with_search: position of `it` in self.search
    ns_idx,             \* dns_lookup: position of `it` in self.nameservers
    lookup_name,        \* dns_lookup: its argument, an absolute name
    q,                  \* the two query_question_and_nameserver futures
    settled,            \* the questions of this coordinator call, as they settled
    coord_result,       \* what query_name_and_nameserver returned
    lookup_result,      \* what dns_lookup returned
    result,             \* what resolve returned
    lookups,            \* every dns_lookup call made: [host, name, res]
    contacts,           \* every coordinator call made: [lookup, ns, res]
    it_msg,             \* address extraction: the message of the IpAddresses
    it_state,           \* address extraction: where the consumer stands
    it_pos,             \* address extraction: next unread record of the section
    yielded             \* address extraction: the items next has returned

config == <<name, ndots, search, nameservers, udp_payload_size>>
resolver == <<pc, search_idx, ns_idx, lookup_name, q, settled, coord_result,
              lookup_result, result, lookups, contacts>>
extractor == <<it_msg, it_state, it_pos, yielded>>
vars == <<config, resolver, extractor>>

Qtypes == {"A", "AAAA"}

\* A question future before its first poll.
QIdle ==
    [pc |-> "idle", id |-> 0, data |-> NoData, udp_call |-> NoCall,
     tcp_call |-> NoCall, udp_event |-> "-", udp_res |-> TUnset, out |-> TUnset]

\* A question future that has returned out: its locals (id, data) are gone.
QSettled(out) == [QIdle EXCEPT !.pc = "settled", !.out = out]

\* nameservers: k distinct socket addresses, in configured order.
NameserverLists == {[i \in 1..k |-> i] : k \in 0..MaxNameservers}

ExtractorIdle ==
    /\ it_msg = Msg(<<>>)
    /\ it_state = "idle"
    /\ it_pos = 1
    /\ yielded = <<>>

Init ==
    /\ name \in Names
    /\ ndots \in 0..MaxNdots
    /\ search \in SearchLists
    /\ nameservers \in NameserverLists
    /\ udp_payload_size \in PayloadSizes
    /\ pc = "start"
    /\ search_idx = 1
    /\ ns_idx = 1
    /\ lookup_name = <<>>
    /\ q = [t \in Qtypes |-> QIdle]
    /\ settled = <<>>
    /\ coord_result = Unset
    /\ lookup_result = Unset
    /\ result = Unset
    /\ lookups = <<>>
    /\ contacts = <<>>
    /\ ExtractorIdle

\* ---------------------------------------------------------- dns_with_search

\* let name = name.trim_end_matches('.')
TrimmedName == trim_end_matches(name)

\* Variant of Candidate: the suffixes taken from the back of the list.
CandidateReversed(i) == HostOf(TrimmedName, search[Len(search) + 1 - i])

\* The name the search loop looks up for the suffix at position i.
Candidate(i) == HostOf(TrimmedName, search[i])

\* self.dns_lookup(name) is entered for the absolute name `labels`.
EnterLookup(host, labels) ==
    /\ lookups' = Append(lookups, [host |-> host, name |-> labels, res |-> Unset])
    /\ lookup_name' = labels
    /\ ns_idx' = 1
    /\ pc' = "lookup"

\* Variant of SearchTakes: an Ok without addresses is passed over and the next
\* suffix tried.
SearchTakesNonEmpty(r) == r.tag = "Ok" /\ r.addrs # <<>>

\* `if let Ok(addrs) = self.dns_lookup(name).await`
SearchTakes(r) == r.tag = "Ok"

\* FromIterator::from_iter(std::iter::empty()), after the search loop.
SearchFallback == Ok(<<>>)

\* resolve returns r.
Return(r) ==
    /\ result' = r
    /\ pc' = "done"

\* resolve / query_resolv / dns_with_search up to the branch on global_scope;
\* in the else branch the bare name is parsed and looked up.
Resolve ==
    /\ pc = "start"
    /\ IF global_scope_of(name, ndots)
       THEN /\ pc' = "search"
            /\ UNCHANGED <<lookups, lookup_name, ns_idx, result>>
       ELSE LET parsed == ParseAbsolute(TrimmedName)
            IN  IF parsed.ok
                THEN EnterLookup(TrimmedName, parsed.labels) /\ UNCHANGED result
                ELSE Return(Err("NameParse"))
                     /\ UNCHANGED <<lookups, lookup_name, ns_idx>>
    /\ UNCHANGED <<config, search_idx, q, settled, coord_result, lookup_result,
                   contacts, extractor>>

\* One turn of `for search in it`: the candidate is built, parsed and looked up.
SearchTry ==
    /\ pc = "search"
    /\ search_idx <= Len(search)
    /\ LET host == Candidate(search_idx)
           parsed == ParseAbsolute(host)
       IN  IF parsed.ok
           THEN EnterLookup(host, parsed.labels) /\ UNCHANGED result
           ELSE Return(Err("NameParse"))
                /\ UNCHANGED <<lookups, lookup_name, ns_idx>>
    /\ UNCHANGED <<config, search_idx, q, settled, coord_result, lookup_result,
                   contacts, extractor>>

\* The search loop ends: FromIterator::from_iter(std::iter::empty()).
SearchExhausted ==
    /\ pc = "search"
    /\ search_idx > Len(search)
    /\ Return(SearchFallback)
    /\ UNCHANGED <<config, search_idx, ns_idx, lookup_name, q, settled,
                   coord_result, lookup_result, lookups, contacts, extractor>>

\* dns_lookup has returned to dns_with_search: `if let Ok(addrs)` in the
\* search loop, the tail call in the else branch.
LookupReturned ==
    /\ pc = "lookup_ret"
    /\ IF global_scope_of(name, ndots)
       THEN IF SearchTakes(lookup_result)
            THEN Return(lookup_result) /\ UNCHANGED search_idx
            ELSE /\ search_idx' = search_idx + 1
                 /\ pc' = "search"
                 /\ UNCHANGED result
       ELSE Return(lookup_result) /\ UNCHANGED search_idx
    /\ UNCHANGED <<config, ns_idx, lookup_name, q, settled, coord_result,
                   lookup_result, lookups, contacts, extractor>>

\* --------------------------------------------------------- transport paths

\* What the network does to one call of the UDP path, over all its attempts:
\* a matching untruncated response, a response marked truncated, no usable
\* response within the attempts, or a fatal socket error.
UdpEvents ==
    [kind : {"answer"}, msg : Responses]
        \cup [kind : {"truncated", "exhausted", "fatal"}, msg : {Msg(<<>>)}]

\* crate::lookups::udp::query
udp_query(ev) ==
    CASE ev.kind = "answer" -> TOkSome(ev.msg)
      [] ev.kind = "truncated" -> TOkNone
      [] ev.kind = "exhausted" -> TOkNone
      [] OTHER -> TErr("UdpTransport")

\* What the network does to one call of the TCP path.
TcpEvents ==
    [kind : {"answer"}, msg : Responses]
        \cup [kind : {"noanswer", "fatal"}, msg : {Msg(<<>>)}]

\* crate::lookups::tcp::query
tcp_query(ev) ==
    CASE ev.kind = "answer" -> TOkSome(ev.msg)
      [] ev.kind = "noanswer" -> TOkNone
      [] OTHER -> TErr("TcpTransport")

\* ------------------------------------------ query_question_and_nameserver

\* Variant of FitsUdp: a query of exactly the payload size does not fit.
FitsUdpStrict(data, size) == data.len < size

\* if data.len() <= udp_payload_size as usize
FitsUdp(data, size) == data.len <= size

\* The arguments of crate::lookups::udp::query: (id, data.clone(), ...)
UdpArgs(id, data) == Call(id, data)

\* Variant of TcpArgs: the query rebuilt under the next id for the TCP path.
TcpArgsRebuilt(id, data) ==
    Call((id + 1) % 65536, [data EXCEPT !.id = (id + 1) % 65536])

\* The arguments of crate::lookups::tcp::query: (id, data, ...)
TcpArgs(id, data) == Call(id, data)

\* The future's first poll, up to its first await: the id is drawn, the
\* message built, and the UDP or the TCP path called.  built is whether
\* create_message returned Ok.
QStart(qname, qtype, id, built, size) ==
    IF ~built
    THEN QSettled(TErr("MessageBuild"))
    ELSE LET data == create_message(id, qname, qtype, size)
         IN  IF FitsUdp(data, size)
             THEN [QIdle EXCEPT !.pc = "udp", !.id = id, !.data = data,
                                !.udp_call = UdpArgs(id, data)]
             ELSE [QIdle EXCEPT !.pc = "tcp", !.id = id, !.data = data,
                                !.tcp_call = TcpArgs(id, data)]

\* Variant of AfterUdp: an error of the UDP path is returned, as with `?`.
AfterUdpPropagatesErr(qs, ev, res) ==
    IF res.tag \in {"OkSome", "Err"}
    THEN QSettled(res)
    ELSE [qs EXCEPT !.pc = "tcp", !.udp_event = ev.kind, !.udp_res = res,
                    !.tcp_call = TcpArgs(qs.id, qs.data)]

\* The UDP path has returned res: `if let Ok(Some(addrs))` returns it, and
\* anything else falls through to the TCP path.
AfterUdp(qs, ev, res) ==
    IF res.tag = "OkSome"
    THEN QSettled(res)
    ELSE [qs EXCEPT !.pc = "tcp", !.udp_event = ev.kind, !.udp_res = res,
                    !.tcp_call = TcpArgs(qs.id, qs.data)]

\* The TCP path has returned res, which is the question's outcome.
AfterTcp(qs, res) == QSettled(res)

\* ----------------------------------------------- query_name_and_nameserver

\* The questions that are settled in q2 and were not in q1, A before AAAA
\* (join! polls ipv4 before ipv6).
NewlySettled(q1, q2) ==
    LET new(t) == q1[t].pc # "settled" /\ q2[t].pc = "settled"
    IN  (IF new("A") THEN <<"A">> ELSE <<>>)
            \o (IF new("AAAA") THEN <<"AAAA">> ELSE <<>>)

\* Some(x) gives x.iter(), None gives nothing.
AddrsOfOption(out) ==
    IF out.tag = "OkSome" THEN AddrsOf(out.msg)
    ELSE [panic |-> FALSE, items |-> <<>>]

\* Variant of JoinResult: a question without a response fails the call.
JoinResultNoneFails(ipv4, ipv6) ==
    IF ipv4.tag \in {"Err", "OkNone"} THEN Err(IF ipv4.tag = "Err" THEN ipv4.err ELSE "NoResponse")
    ELSE IF ipv6.tag \in {"Err", "OkNone"} THEN Err(IF ipv6.tag = "Err" THEN ipv6.err ELSE "NoResponse")
    ELSE Ok(AddrsOfOption(ipv4).items \o AddrsOfOption(ipv6).items)

\* Variant of JoinResult: the AAAA question's error is looked at first.
JoinResultIpv6First(ipv4, ipv6) ==
    IF ipv6.tag = "Err" THEN Err(ipv6.err)
    ELSE IF ipv4.tag = "Err" THEN Err(ipv4.err)
    ELSE Ok(AddrsOfOption(ipv4).items \o AddrsOfOption(ipv6).items)

\* let ipv4 = ipv4?; let ipv6 = ipv6?; then the chained addresses collected.
\* A panic of the extractor is Unset: nothing is returned.
JoinResult(ipv4, ipv6) ==
    IF ipv4.tag = "Err" THEN Err(ipv4.err)
    ELSE IF ipv6.tag = "Err" THEN Err(ipv6.err)
    ELSE LET a4 == AddrsOfOption(ipv4)
             a6 == AddrsOfOption(ipv6)
         IN  IF a4.panic \/ a6.panic THEN Unset
             ELSE Ok(a4.items \o a6.items)

\* Variant of JoinReady: the join returns as soon as one future has failed.
JoinReadyRace(qq) ==
    \/ \A t \in Qtypes : qq[t].pc = "settled"
    \/ \E t \in Qtypes : qq[t].pc = "settled" /\ qq[t].out.tag = "Err"

\* Variant of JoinReady: the join returns with the first future that is ready.
JoinReadySelect(qq) == \E t \in Qtypes : qq[t].pc = "settled"

\* monoio::join! is ready when both futures are.
JoinReady(qq) == \A t \in Qtypes : qq[t].pc = "settled"

\* ----------------------------------------------------------------- dns_lookup

\* The nameserver the loop contacts at position i.
NameserverAt(i) == nameservers[i]

\* Variant of LookupTakes: an Ok without addresses is passed over.
LookupTakesNonEmpty(r) == r.tag = "Ok" /\ r.addrs # <<>>

\* `if let Ok(addrs) = self.query_name_and_nameserver(..).await`
LookupTakes(r) == r.tag = "Ok"

\* Variant of LookupFallback: the loop's end reported as an error.
LookupFallbackErr == Err("Transport")

\* Ok(FromIterator::from_iter(std::iter::empty())), after the loop.
LookupFallback == Ok(<<>>)

\* dns_lookup returns r to dns_with_search.
LookupReturn(r) ==
    /\ lookup_result' = r
    /\ lookups' = [lookups EXCEPT ![Len(lookups)].res = r]
    /\ pc' = "lookup_ret"

\* `for nameserver in it`: the coordinator is called and both futures are
\* polled once, ipv4 first.
CoordStart ==
    /\ pc = "lookup"
    /\ ns_idx <= Len(nameservers)
    /\ \E ids \in [Qtypes -> Ids], built \in [Qtypes -> BOOLEAN] :
         LET q2 == [t \in Qtypes |->
                      QStart(lookup_name, t, ids[t], built[t], udp_payload_size)]
         IN  /\ q' = q2
             /\ settled' = NewlySettled(q, q2)
    /\ contacts' = Append(contacts, [lookup |-> Len(lookups),
                                     ns |-> NameserverAt(ns_idx), res |-> Unset])
    /\ coord_result' = Unset
    /\ pc' = "join"
    /\ UNCHANGED <<config, search_idx, ns_idx, lookup_name, lookup_result,
                   result, lookups, extractor>>

\* The UDP path call of question t returns.
UdpReturned(t) ==
    /\ pc = "join"
    /\ q[t].pc = "udp"
    /\ \E ev \in UdpEvents :
         LET q2 == [q EXCEPT ![t] = AfterUdp(q[t], ev, udp_query(ev))]
         IN  /\ q' = q2
             /\ settled' = settled \o NewlySettled(q, q2)
    /\ UNCHANGED <<config, pc, search_idx, ns_idx, lookup_name, coord_result,
                   lookup_result, result, lookups, contacts, extractor>>

\* The TCP path call of question t returns.
TcpReturned(t) ==
    /\ pc = "join"
    /\ q[t].pc = "tcp"
    /\ \E ev \in TcpEvents :
         LET q2 == [q EXCEPT ![t] = AfterTcp(q[t], tcp_query(ev))]
         IN  /\ q' = q2
             /\ settled' = settled \o NewlySettled(q, q2)
    /\ UNCHANGED <<config, pc, search_idx, ns_idx, lookup_name, coord_result,
                   lookup_result, result, lookups, contacts, extractor>>

\* join! returns and query_name_and_nameserver runs to its end.
JoinReturned ==
    /\ pc = "join"
    /\ JoinReady(q)
    /\ LET r == JoinResult(q["A"].out, q["AAAA"].out)
       IN  /\ coord_result' = r
           /\ contacts' = [contacts EXCEPT ![Len(contacts)].res = r]
           /\ pc' = IF r.tag = "Unset" THEN "panicked" ELSE "coord_ret"
    /\ UNCHANGED <<config, search_idx, ns_idx, lookup_name, q, settled,
                   lookup_result, result, lookups, extractor>>

\* `if let Ok(addrs) = ... { return Ok(addrs) }`, else the next nameserver.
CoordReturned ==
    /\ pc = "coord_ret"
    /\ IF LookupTakes(coord_result)
       THEN LookupReturn(coord_result) /\ UNCHANGED ns_idx
       ELSE /\ ns_idx' = ns_idx + 1
            /\ pc' = "lookup"
            /\ UNCHANGED <<lookup_result, lookups>>
    /\ q' = [t \in Qtypes |-> QIdle]
    /\ settled' = <<>>
    /\ UNCHANGED <<config, search_idx, lookup_name, coord_result, result,
                   contacts, extractor>>

\* The nameserver loop ends: Ok(FromIterator::from_iter(std::iter::empty())).
LookupExhausted ==
    /\ pc = "lookup"
    /\ ns_idx > Len(nameservers)
    /\ LookupReturn(LookupFallback)
    /\ UNCHANGED <<config, search_idx, ns_idx, lookup_name, q, settled,
                   coord_result, result, contacts, extractor>>

\* ------------------------------------------------------------ specification

Next ==
    \/ Resolve
    \/ SearchTry
    \/ SearchExhausted
    \/ LookupReturned
    \/ CoordStart
    \/ \E t \in Qtypes : UdpReturned(t)
    \/ \E t \in Qtypes : TcpReturned(t)
    \/ JoinReturned
    \/ CoordReturned
    \/ LookupExhausted

Spec == Init /\ [][Next]_vars

\* --------------------------------------- the address extractor, step by step

\* The messages handed to the address extractor.
IterMessages ==
    {NoAnswerMsg} \cup {Msg(sec) : sec \in UNION {[1..k -> Records] : k \in 0..MaxRecords}}

\* A consumer holds an IpAddresses over any message; no resolve call runs.
InitIter ==
    /\ name = <<"a">>
    /\ ndots = 1
    /\ search = <<>>
    /\ nameservers = <<>>
    /\ udp_payload_size = 512
    /\ pc = "off"
    /\ search_idx = 1
    /\ ns_idx = 1
    /\ lookup_name = <<>>
    /\ q = [t \in Qtypes |-> QIdle]
    /\ settled = <<>>
    /\ coord_result = Unset
    /\ lookup_result = Unset
    /\ result = Unset
    /\ lookups = <<>>
    /\ contacts = <<>>
    /\ it_msg \in IterMessages
    /\ it_state = "new"
    /\ it_pos = 1
    /\ yielded = <<>>

\* IpAddresses::iter: Iter(self.message.answer().unwrap())
IpAddresses_iter ==
    /\ it_state = "new"
    /\ it_state' = IF it_msg.answer_ok THEN "iterating" ELSE "panicked"
    /\ UNCHANGED <<config, resolver, it_msg, it_pos, yielded>>

\* Iter::next, called by a consumer that stops at the first None.
Iter_next ==
    /\ it_state = "iterating"
    /\ LET n == IterNextAt(it_msg.answer, it_pos)
       IN  CASE n.kind = "Some" ->
                  /\ yielded' = Append(yielded, n.item)
                  /\ it_pos' = it_pos + 1
                  /\ UNCHANGED it_state
             [] n.kind = "None" ->
                  /\ it_state' = "finished"
                  /\ it_pos' = IF it_pos > Len(it_msg.answer) THEN it_pos ELSE it_pos + 1
                  /\ UNCHANGED yielded
             [] OTHER ->
                  /\ it_state' = "panicked"
                  /\ UNCHANGED <<it_pos, yielded>>
    /\ UNCHANGED <<config, resolver, it_msg>>

NextIter ==
    \/ IpAddresses_iter
    \/ Iter_next

SpecIter == InitIter /\ [][NextIter]_vars

\* ------------------------------------------------------------------- claims

\* The contacts made for the lookup that contact i belongs to, up to i.
PosInLookup(i) ==
    Cardinality({j \in 1..i : contacts[j].lookup = contacts[i].lookup})

\* C1: a name whose dot count is >= ndots or which ends in '.' is looked up
\* with the search suffixes in configured order, the k-th lookup being for
\* name + "." + the k-th suffix without its leading dots; a later suffix is
\* looked up only after every earlier lookup returned an error; resolve
\* returns the result of the first lookup that did not, and an empty
\* collection when every lookup did or no suffix is configured.  (A candidate
\* that does not parse ends the call with NameParse before its lookup.)
C1_SearchSuffixesInOrder ==
    (num_dots_of(name) >= ndots \/ ends_with_dot(name)) =>
        /\ Len(lookups) <= Len(search)
        /\ \A k \in DOMAIN lookups :
             /\ lookups[k].host =
                    TrimmedName \o <<".">> \o trim_start_matches(search[k])
             /\ lookups[k].name = ParseAbsolute(lookups[k].host).labels
             /\ k < Len(lookups) => lookups[k].res.tag = "Err"
        /\ pc = "done" =>
             IF \E k \in DOMAIN lookups : lookups[k].res.tag = "Ok"
             THEN result = lookups[Len(lookups)].res
             ELSE IF Len(lookups) = Len(search)
             THEN result = Ok(<<>>)
             ELSE /\ result = Err("NameParse")
                  /\ ~ParseAbsolute(TrimmedName \o <<".">> \o
                        trim_start_matches(search[Len(lookups) + 1])).ok

\* C1 witness: two suffixes are configured, the first one's lookup returned
\* addresses, and resolve returned them without a second lookup.
C1_Witness ==
    /\ pc = "done"
    /\ num_dots_of(name) >= ndots
    /\ Len(search) = 2
    /\ Len(lookups) = 1
    /\ result.tag = "Ok"
    /\ result.addrs # <<>>

\* C2: a name whose dot count is < ndots and which has no trailing dot gets
\* at most one lookup, for the bare name made absolute, and never one for a
\* name with a suffix appended; when the name parses there is exactly one
\* and its result is the result of resolve.
C2_NoSuffixBelowNdots ==
    (num_dots_of(name) < ndots /\ ~ends_with_dot(name)) =>
        /\ Len(lookups) <= 1
        /\ \A k \in DOMAIN lookups :
             /\ lookups[k].host = name
             /\ lookups[k].name = ParseAbsolute(name).labels
        /\ pc = "done" =>
             IF ParseAbsolute(name).ok
             THEN Len(lookups) = 1 /\ result = lookups[1].res
             ELSE lookups = <<>> /\ result = Err("NameParse")

\* C2 witness: suffixes are configured, the name is below ndots, and resolve
\* has returned after its one lookup of the bare name.
C2_Witness ==
    /\ pc = "done"
    /\ num_dots_of(name) < ndots
    /\ ~ends_with_dot(name)
    /\ search # <<>>
    /\ Len(lookups) = 1
    /\ lookups[1].host = name
    /\ contacts # <<>>

\* C3: when every coordinator call made for a syntactically valid name
\* failed, every configured nameserver was contacted and resolve returns Ok
\* with an empty collection; so it does with no nameserver configured.
C3_AllNameserversFailGivesEmpty ==
    (/\ pc = "done"
     /\ ParseAbsolute(name).ok
     /\ \A i \in DOMAIN contacts : contacts[i].res.tag = "Err") =>
        /\ result = Ok(<<>>)
        /\ lookups # <<>> => Len(contacts) = Len(nameservers)

\* C3 witness: two nameservers, both coordinator calls failed, and resolve
\* returned Ok with nothing.
C3_Witness ==
    /\ pc = "done"
    /\ ParseAbsolute(name).ok
    /\ Len(nameservers) = 2
    /\ Len(contacts) = 2
    /\ \A i \in DOMAIN contacts : contacts[i].res.tag = "Err"
    /\ result = Ok(<<>>)

RECURSIVE AddressItems(_)
\* The (address, ttl) pairs of the A and AAAA records of a section, in order.
AddressItems(sec) ==
    IF sec = <<>> THEN <<>>
    ELSE (IF Head(sec).rtype \in {"A", "AAAA"} THEN <<ItemOf(Head(sec))>> ELSE <<>>)
             \o AddressItems(Tail(sec))

\* C4: over an answer section of well-formed records the address extractor
\* yields exactly the A and AAAA records, in section order, each with its
\* TTL, whatever other records stand before or between them.
C4_YieldsExactlyAddressRecords ==
    (/\ it_state = "finished"
     /\ \A i \in DOMAIN it_msg.answer : it_msg.answer[i].form = "ok") =>
        yielded = AddressItems(it_msg.answer)

\* C5: a name that does not parse as a domain name makes resolve return a
\* NameParse error, and no nameserver is ever contacted for it.
C5_MalformedNameFailsBeforeIO ==
    ~ParseAbsolute(name).ok =>
        /\ contacts = <<>>
        /\ pc = "done" => result = Err("NameParse")

\* C6: when a coordinator call failed because create_message failed, resolve
\* returns that error.
C6_BuildFailurePropagates ==
    (/\ pc = "done"
     /\ \E i \in DOMAIN contacts : contacts[i].res = Err("MessageBuild")) =>
        result = Err("MessageBuild")

\* C7: a question whose query is longer than udp_payload_size goes to the
\* TCP path without any UDP path call; a question whose query is at most
\* udp_payload_size long goes to the UDP path first, and to the TCP path only
\* after the UDP path call.
C7_UdpOnlyWhenQueryFits ==
    \A t \in Qtypes :
        /\ (pc = "join" /\ q[t].pc # "settled") =>
             /\ q[t].pc \in {"udp", "tcp"}
             /\ q[t].data = create_message(q[t].id, lookup_name, t, udp_payload_size)
        /\ q[t].pc \in {"udp", "tcp"} =>
             IF q[t].data.len > udp_payload_size
             THEN /\ q[t].pc = "tcp"
                  /\ ~q[t].udp_call.made
                  /\ q[t].tcp_call.made
             ELSE /\ q[t].udp_call.made
                  /\ q[t].tcp_call.made <=> q[t].pc = "tcp"
                  /\ q[t].pc = "udp" <=> q[t].udp_event = "-"

\* C7 witness: the A question's query is longer than udp_payload_size and
\* its TCP path call is in flight.
C7_Witness ==
    /\ q["A"].pc = "tcp"
    /\ q["A"].data.len > udp_payload_size
    /\ q["A"].tcp_call.made

\* C8: a TCP path call made after a UDP path call has the id and the query
\* bytes of the UDP path call, which are those built for the question; a
\* truncated UDP response, like an exhausted or failed UDP path, leaves the
\* question unsettled with its TCP path call made.
C8_TcpReusesIdAndBuffer ==
    \A t \in Qtypes :
        /\ (q[t].pc = "tcp" /\ q[t].udp_call.made) =>
             /\ q[t].tcp_call.made
             /\ q[t].tcp_call.id = q[t].udp_call.id
             /\ q[t].tcp_call.data = q[t].udp_call.data
             /\ q[t].tcp_call.data = q[t].data
             /\ q[t].tcp_call.id = q[t].data.id
             /\ q[t].udp_event \in {"truncated", "exhausted", "fatal"}
        /\ q[t].udp_event \in {"truncated", "exhausted", "fatal"} =>
             /\ q[t].pc = "tcp"
             /\ q[t].out = TUnset

\* C8 witness: the UDP response of the AAAA question was truncated and its
\* TCP path call is in flight.
C8_Witness ==
    /\ q["AAAA"].pc = "tcp"
    /\ q["AAAA"].udp_event = "truncated"
    /\ q["AAAA"].udp_call.made
    /\ q["AAAA"].tcp_call.made

\* C9: within one lookup the k-th coordinator call goes to the k-th
\* configured nameserver, and a further nameserver is contacted only after
\* every earlier call returned an error; the lookup returns the result of
\* the first call that did not, whether or not it holds addresses, and an
\* empty collection when every nameserver was contacted in vain.
C9_NameserversInOrderFirstOk ==
    /\ \A i \in DOMAIN contacts :
         /\ PosInLookup(i) <= Len(nameservers)
         /\ contacts[i].ns = nameservers[PosInLookup(i)]
         /\ (i < Len(contacts) /\ contacts[i + 1].lookup = contacts[i].lookup) =>
                contacts[i].res.tag = "Err"
    /\ (pc \in {"lookup_ret", "done"} /\ lookups # <<>>) =>
         LET mine == {i \in DOMAIN contacts : contacts[i].lookup = Len(lookups)}
         IN  IF \E i \in mine : contacts[i].res.tag = "Ok"
             THEN /\ contacts[Len(contacts)].res.tag = "Ok"
                  /\ lookups[Len(lookups)].res = contacts[Len(contacts)].res
             ELSE /\ Cardinality(mine) = Len(nameservers)
                  /\ lookups[Len(lookups)].res = Ok(<<>>)

\* C9 witness: two nameservers are configured, the first one's coordinator
\* call returned Ok without addresses, and the lookup returned it.
C9_Witness ==
    /\ pc = "lookup_ret"
    /\ Len(nameservers) = 2
    /\ Len(contacts) = 1
    /\ contacts[1].res = Ok(<<>>)
    /\ lookup_result = Ok(<<>>)

\* C10 (as claimed): after a coordinator call in which a question's
\* transport returned Ok(None), dns_lookup goes on to the next nameserver.
C10_OkNoneTriesNextNameserver ==
    [][(pc = "coord_ret" /\ \E t \in Qtypes : q[t].out.tag = "OkNone") =>
          (pc' = "lookup" /\ ns_idx' = ns_idx + 1)]_vars

\* C10 (amended): a question whose transport returned Ok(None) contributes
\* no addresses and is no error.  After a coordinator call with such a
\* question, dns_lookup goes on to the next nameserver only if the other
\* question returned an error; otherwise it returns, at this nameserver, Ok
\* with the addresses of the other question's response.
C10_OkNoneIsNotAnError ==
    [][(pc = "coord_ret" /\ \E t \in Qtypes : q[t].out.tag = "OkNone") =>
          IF \E u \in Qtypes : q[u].out.tag = "Err"
          THEN pc' = "lookup" /\ ns_idx' = ns_idx + 1
          ELSE /\ pc' = "lookup_ret"
               /\ ns_idx' = ns_idx
               /\ lookup_result' = Ok(AddrsOfOption(q["A"].out).items
                                        \o AddrsOfOption(q["AAAA"].out).items)]_vars

\* C10 witness: at the first of two nameservers the A question got Ok(None)
\* and the AAAA question a response with addresses, and the coordinator call
\* returned Ok with those addresses.
C10_Witness ==
    /\ pc = "coord_ret"
    /\ ns_idx = 1
    /\ Len(nameservers) = 2
    /\ q["A"].out.tag = "OkNone"
    /\ q["AAAA"].out.tag = "OkSome"
    /\ coord_result = Ok(<<ItemOf(RecAAAA)>>)
\* A question of the current coordinator call that has been started and has
\* not settled.
InFlight(t) == q[t].pc \in {"udp", "tcp"}

\* C11: the coordinator is a join, not a race. Whenever it has returned, with
\* success or error, both the A and the AAAA question have settled; while one
\* of them is in flight the coordinator has no result, whatever the other
\* one's outcome.
C11_JoinNotRace ==
    /\ pc \in {"coord_ret", "panicked"} =>
           /\ \A t \in Qtypes : q[t].pc = "settled"
           /\ Len(settled) = 2
           /\ coord_result # Unset \/ pc = "panicked"
    /\ (\E t \in Qtypes : InFlight(t)) =>
           /\ pc = "join"
           /\ coord_result = Unset
           /\ contacts[Len(contacts)].res = Unset

\* One question has failed while the other is still in flight, and the
\* coordinator has not returned.
C11_Witness ==
    /\ pc = "join"
    /\ q["A"].pc = "settled" /\ q["A"].out.tag = "Err"
    /\ InFlight("AAAA")
    /\ coord_result = Unset

\* The question of the current coordinator call has settled with an error.
Failed(t) == q[t].pc = "settled" /\ q[t].out.tag = "Err"

\* C12 as stated: when a question fails the coordinator fails, and when both
\* fail the error returned is the one that was observed first in time.
C12_FirstErrorObservedWins ==
    pc = "coord_ret" =>
        /\ (\E t \in Qtypes : Failed(t)) => coord_result.tag = "Err"
        /\ (\A t \in Qtypes : Failed(t)) =>
               coord_result = Err(q[settled[1]].out.err)

\* C12, amended: when a question fails the coordinator fails with no
\* addresses, whatever the other question returned; the error is the A
\* question's when the A question failed, in whichever order the two failed,
\* and the AAAA question's otherwise.
C12_Ipv4ErrorWins ==
    pc = "coord_ret" =>
        /\ (\E t \in Qtypes : Failed(t)) =>
               coord_result = Err(IF Failed("A") THEN q["A"].out.err
                                  ELSE q["AAAA"].out.err)
        /\ coord_result.tag = "Err" => \E t \in Qtypes : Failed(t)

\* Both questions failed, the AAAA question first and with another error, and
\* the coordinator returned the A question's error.
C12_Witness ==
    /\ pc = "coord_ret"
    /\ Failed("A") /\ Failed("AAAA")
    /\ settled = <<"AAAA", "A">>
    /\ q["A"].out.err # q["AAAA"].out.err
    /\ coord_result = Err(q["A"].out.err)

\* All (address, ttl) pairs of a question's response, none without a response.
PairsOf(out) ==
    IF out.tag = "OkSome" THEN AddressItems(out.msg.answer) ELSE <<>>

\* C13: when neither question failed, the coordinator returns all address/TTL
\* pairs of the A response in answer order followed by all pairs of the AAAA
\* response, in whichever order the two questions settled; a question without
\* a response contributes nothing and does not fail the call.
C13_MergeIpv4ThenIpv6 ==
    (pc = "coord_ret" /\ \A t \in Qtypes : ~Failed(t)) =>
        coord_result = Ok(PairsOf(q["A"].out) \o PairsOf(q["AAAA"].out))

\* C14: the questions in flight are at most the A and the AAAA question of
\* one coordinator call, both for the name being looked up and at the
\* nameserver the loop stands at; every earlier contact and every earlier
\* lookup has returned, and outside the join no question is in flight.
C14_AtMostOnePairInFlight ==
    /\ \A t \in Qtypes : InFlight(t) =>
           /\ pc = "join"
           /\ q[t].data.qname = lookup_name /\ q[t].data.qtype = t
           /\ contacts # <<>>
           /\ contacts[Len(contacts)].lookup = Len(lookups)
           /\ contacts[Len(contacts)].ns = nameservers[ns_idx]
           /\ lookups[Len(lookups)].name = lookup_name
    /\ \A i \in 1..(Len(contacts) - 1) : contacts[i].res # Unset
    /\ \A i \in 1..(Len(lookups) - 1) : lookups[i].res # Unset
    /\ \A i \in DOMAIN contacts :
           contacts[i].res = Unset => i = Len(contacts) /\ pc \in {"join", "panicked"}

\* Both questions are in flight at the second nameserver, after the call to
\* the first one has returned an error.
C14_Witness ==
    /\ pc = "join"
    /\ InFlight("A") /\ InFlight("AAAA")
    /\ Len(contacts) = 2
    /\ contacts[1].res.tag = "Err"
    /\ contacts[2].ns = nameservers[2]

\* s without its last character when that is a dot.
StripOneDot(s) == IF ends_with_dot(s) THEN SubSeq(s, 1, Len(s) - 1) ELSE s

\* C15: dns_with_search strips exactly one trailing dot: every candidate that
\* is looked up is the name without one trailing dot (a name ending in k >= 1
\* dots keeping k - 1 of them), a dot, and the suffix.
C15_StripsExactlyOneDot ==
    global_scope_of(name, ndots) =>
        \A k \in DOMAIN lookups :
            lookups[k].host =
                StripOneDot(name) \o <<".">> \o trim_start_matches(search[k])

\* The records of a section that can be parsed, in order.
WellFormed(sec) == SelectSeq(sec, LAMBDA r : r.form = "ok")

\* C16: a malformed record is skipped and does not end the scan: over a
\* section of address records and malformed records, a finished scan has
\* yielded every well-formed A and AAAA record, those after a malformed
\* record too.
C16_MalformedRecordSkipped ==
    (/\ it_state = "finished"
     /\ \A i \in DOMAIN it_msg.answer : it_msg.answer[i].rtype # "CNAME") =>
        yielded = AddressItems(WellFormed(it_msg.answer))

\* C17: address extraction never aborts: whatever the message, also one whose
\* answer section cannot be reached or that holds an A or AAAA record whose
\* data cannot be decoded, iter and next go on to the end of a (possibly
\* empty or shortened) sequence and never panic.
C17_ExtractionNeverPanics == it_state # "panicked"

\* C19: in global scope only the first configured suffix is ever looked up.
\* At most one lookup is made, for name + "." + the first suffix, and every
\* contact belongs to it; resolve returns that lookup's result, which is Ok
\* (possibly empty), also when every nameserver failed for it.
C19_OnlyFirstSuffixLookedUp ==
    global_scope_of(name, ndots) =>
        /\ Len(lookups) <= 1
        /\ lookups # <<>> =>
               /\ search # <<>>
               /\ lookups[1].host = HostOf(TrimmedName, search[1])
               /\ lookups[1].res.tag \in {"Unset", "Ok"}
        /\ \A i \in DOMAIN contacts : contacts[i].lookup = 1
        /\ \A t \in Qtypes : InFlight(t) =>
               q[t].data.qname = ParseAbsolute(HostOf(TrimmedName, search[1])).labels
        /\ (pc = "done" /\ lookups # <<>>) => result = lookups[1].res

\* Two suffixes and two nameservers are configured, both nameservers failed
\* for the first suffix, and resolve returned Ok(empty) after that one lookup.
C19_Witness ==
    /\ pc = "done"
    /\ global_scope_of(name, ndots)
    /\ Len(search) = 2 /\ Len(nameservers) = 2
    /\ Len(lookups) = 1 /\ Len(contacts) = 2
    /\ \A i \in DOMAIN contacts : contacts[i].res.tag = "Err"
    /\ result = Ok(<<>>)

\* The coordinator calls resolve may make: one per nameserver for each search
\* suffix in global scope, one per nameserver otherwise.
MaxCoordinatorCalls ==
    IF global_scope_of(name, ndots) THEN Len(search) * Len(nameservers)
    ELSE Len(nameservers)

\* The numbers of C18: the coordinator calls are within MaxCoordinatorCalls,
\* each call has the two questions A and AAAA, and a question has one slot for
\* a UDP path call and one for a TCP path call, the UDP one first.
WorkBounded ==
    /\ Len(contacts) <= MaxCoordinatorCalls
    /\ DOMAIN q = Qtypes
    /\ pc \in {"join", "coord_ret"} => \A t \in Qtypes : q[t].pc # "idle"
    /\ \A t \in Qtypes :
           /\ q[t].pc = "udp" => q[t].udp_call.made /\ ~q[t].tcp_call.made
           /\ q[t].pc = "tcp" => q[t].tcp_call.made

\* C18: every resolve call returns: the work is bounded as in WorkBounded and
\* a call that can take no further step has returned.
C18_ResolveReturnsWithinBounds ==
    /\ WorkBounded
    /\ ~ENABLED Next => pc = "done"

\* C20: the outcome of a question is the UDP path's response when that
\* returned Ok(Some), and the TCP path is then never called; in every other
\* case (UDP skipped for a query too large, Ok(None), Err) the TCP path is
\* called and the outcome is what it returned.  An error of the UDP path is
\* never the outcome: a transport error is a TCP error.
C20_UdpResponseElseTcpOutcome ==
    [][\A t \in Qtypes :
        /\ (q[t].pc = "udp" /\ q'[t].pc # "udp") =>
               \/ /\ q'[t].pc = "settled"
                  /\ q'[t].out \in {TOkSome(m) : m \in Responses}
               \/ /\ q'[t].pc = "tcp"
                  /\ q'[t].udp_res \in {TOkNone, TErr("UdpTransport")}
                  /\ q'[t].tcp_call.made
        /\ (q[t].pc = "idle" /\ q'[t].pc = "tcp") =>
               /\ ~q'[t].udp_call.made
               /\ q'[t].data.len > udp_payload_size
        /\ (q[t].pc = "tcp" /\ q'[t].pc # "tcp") =>
               /\ q'[t].pc = "settled"
               /\ q[t].udp_res.tag # "OkSome"
               /\ q'[t].out \in {tcp_query(ev) : ev \in TcpEvents}
        /\ q[t].pc = "settled" => q'[t].pc \in {"settled", "idle"}
        /\ q'[t].pc = "settled" =>
               /\ q'[t].out # TErr("UdpTransport")
               /\ q'[t].out.tag = "Err" =>
                      q'[t].out.err \in {"TcpTransport", "MessageBuild"}
     ]_vars

\* The UDP path of the A question returned an error and its TCP path is being
\* called, while the AAAA question has its UDP response as outcome.
C20_Witness ==
    /\ pc = "join"
    /\ q["A"].pc = "tcp" /\ q["A"].udp_res = TErr("UdpTransport")
    /\ q["AAAA"].pc = "settled" /\ q["AAAA"].out.tag = "OkSome"

=============================================================================
